---- MODULE Spec2Model ----
(***************************************************************************)
(* Model of the mail-synchronisation pipeline of luma_backend:             *)
(*   - the identity store (mongoose User documents),                       *)
(*   - the Gmail webhook handler (POST /webhook/gmail) that reconciles a   *)
(*     push notification against the stored history cursor,                *)
(*   - the watch registration route (POST /auth/watch),                    *)
(*   - the SSE connection registry and sendToUser.                         *)
(* The mail provider is the environment: a per-mailbox change log whose    *)
(* record at position p carries history id p, and a retention horizon      *)
(* below which a start cursor is answered 404.                             *)
(***************************************************************************)
EXTENDS Integers, Sequences, FiniteSets, TLC

\* ------------------------------------------------------------------ bounds
\* Longest change log of a mailbox.
MaxLog == 2

\* Identities that appear in notifications and tokens; "c" never signed in.
Emails == {"a", "b", "c"}

\* Identities whose mailbox changes during a run.
MailOwners == {"a"}

\* SSE response objects.
Channels == {"c1", "c2"}

\* The identity the token of each connecting client resolves to.
Subject == [c \in Channels |-> IF c = "c1" THEN "a" ELSE "b"]

\* Most getEmail calls that throw during one reconciliation pass.
MaxFetchFailures == 2

\* Concurrent invocations of the webhook handler.
HandlerIds == {1, 2}

\* Concurrent watch-registration requests.
WatchIds == {1, 2}

\* Latest clock value, in half hours.
MaxTime == 5

\* How long the provider keeps a watch registered, in half hours.
WatchLifetime == 4

\* Most frames kept of what was written to one response object.
MaxFrames == 2

\* Most runs of the close handler of one request.
MaxCloses == 2

\* The events sendToUser is called with.
HubEvents == {"email:new", "email:sync_required"}

\* ------------------------------------------------------- program constants
\* An absent (undefined / null) document field.
NULL == -1

\* newMessageIds.slice(0, 5)
FetchCap == 5

\* 60 * 60 * 1000 ms, counted in half hours.
OneHour == 2

\* --------------------------------------------------------------- provider
\* A history record: messagesAdded is absent (a messageDeleted record) or a
\* list of messages, each with or without the INBOX label.
NoAdded == [hasAdded |-> FALSE, labels |-> <<>>]

Added(ls) == [hasAdded |-> TRUE, labels |-> ls]

RecordShapes ==
    { NoAdded,
      Added(<<TRUE>>),
      Added(<<TRUE, FALSE, TRUE>>),
      Added(<<TRUE, TRUE, TRUE, TRUE>>) }

VARIABLES
    users,        \* identity store: email -> User document
    mailbox,      \* provider: email -> change log (sequence of records)
    horizon,      \* provider: email -> oldest start cursor still resolvable
    connections,  \* SSE registry: Map email -> Set of response objects
    now,          \* Date.now(), in half hours
    wh,           \* webhook handler invocations: id -> locals and position
    wr,           \* watch-registration requests: id -> locals and position
    channel,      \* SSE requests: response object -> what was done with it
    sent          \* the sendToUser call just made, its writes and its result

vars == <<users, mailbox, horizon, connections, now, wh, wr, channel, sent>>

\* ---------------------------------------------------------- identity store
\* No document for the email.
NoUser == [exists |-> FALSE, lastHistoryId |-> NULL, watchExpiration |-> NULL]

\* A signed-in user that never registered a watch.
NewUser == [exists |-> TRUE, lastHistoryId |-> NULL, watchExpiration |-> NULL]

\* A user whose watch was registered when the mailbox log was still empty.
WatchedUser == [exists |-> TRUE, lastHistoryId |-> 0, watchExpiration |-> 2 * OneHour]

\* ------------------------------------------------------- provider answers
\* The message at index i of the record at log position p.
MsgId(p, i) == <<p, i>>

\* gmail.users.history.list: the records after startHistoryId, each with its
\* position; 404 when the start cursor is older than the horizon.
HistoryAfter(e, start) ==
    [k \in 1..(Len(mailbox[e]) - start) |->
        [pos      |-> start + k,
         hasAdded |-> mailbox[e][start + k].hasAdded,
         labels   |-> mailbox[e][start + k].labels]]

HistoryIsStale(e, start) == start < horizon[e]

\* ------------------------------------------------------------ the webhook
\* The inner loop without the INBOX test.
RECURSIVE AllIdsOfRecord(_, _)
AllIdsOfRecord(rec, i) ==
    IF i > Len(rec.labels) THEN <<>>
    ELSE <<MsgId(rec.pos, i)>> \o AllIdsOfRecord(rec, i + 1)

\* The inner loop over record.messagesAdded: ids of the INBOX messages.
RECURSIVE InboxIdsOfRecord(_, _)
InboxIdsOfRecord(rec, i) ==
    IF i > Len(rec.labels) THEN <<>>
    ELSE (IF rec.labels[i] THEN <<MsgId(rec.pos, i)>> ELSE <<>>)
         \o InboxIdsOfRecord(rec, i + 1)

\* The outer loop over the history records.
RECURSIVE ExtractNewMessageIds(_)
ExtractNewMessageIds(history) ==
    IF history = <<>> THEN <<>>
    ELSE (IF Head(history).hasAdded
          THEN InboxIdsOfRecord(Head(history), 1)
          ELSE <<>>)
         \o ExtractNewMessageIds(Tail(history))

\* The fetch loop without the slice.
SliceAll(ids) == ids

\* newMessageIds.slice(0, 5)
Slice(ids) == SubSeq(ids, 1, IF Len(ids) < FetchCap THEN Len(ids) ELSE FetchCap)

\* The start cursor taken from the notification although a cursor is stored.
StartFromHint(lastHistoryId, historyId) == historyId

\* The start cursor moved one record back for overlap.
StartCursorOverlap(lastHistoryId, historyId) ==
    IF lastHistoryId # NULL
    THEN (IF lastHistoryId > 0 THEN lastHistoryId - 1 ELSE 0)
    ELSE historyId

\* user.lastHistoryId || historyId
StartCursor(lastHistoryId, historyId) ==
    IF lastHistoryId # NULL THEN lastHistoryId ELSE historyId

\* sendToUser writing to every registered response object.
SendToAll(email) == UNION {connections[e] : e \in DOMAIN connections}

\* sendToUser: the response objects the event is written to.
SendToUser(email) ==
    IF email \in DOMAIN connections /\ connections[email] # {}
    THEN connections[email]
    ELSE {}

Call(email, event, payload) ==
    [to |-> email, event |-> event, payload |-> payload,
     wrote |-> SendToUser(email)]

\* The elements of a sequence.
Range(s) == {s[i] : i \in DOMAIN s}

\* ------------------------------------------------------------ notification
\* A request body: whether body.message.data is there, what its bytes are,
\* and the two fields a payload that is JSON carries.
\* As a tuple: <<has message.data, payload, emailAddress, historyId>>.
Body(payload, e, hid) == <<TRUE, payload, e, hid>>

NoDataBody == <<FALSE, "none", "a", 1>>

HasData(body) == body[1]
PayloadOf(body) == body[2]

\* Bodies with no message.data, with text that is not JSON, or with a byte
\* that is not UTF-8 where it breaks the JSON syntax.
UndecodableBodies ==
    {NoDataBody, Body("notJson", "a", 1), Body("badUtf8Syntax", "a", 1)}

\* Buffer.from(data, 'base64').toString('utf-8'): a byte sequence that is not
\* UTF-8 becomes U+FFFD, nothing is thrown.
ToUtf8String(payload) ==
    IF payload = "badUtf8InString" THEN "json"
    ELSE IF payload = "badUtf8Syntax" THEN "notJson"
    ELSE payload

\* A parser that accepts any text.
ParsesAlways(text) == TRUE

\* JSON.parse(dataStr) returns (it throws a SyntaxError otherwise)
ParsesAsJson(text) == text = "json"

Thrown(error) ==
    [threw |-> TRUE, error |-> error, emailAddress |-> "a", historyId |-> NULL]

\* decodeNotification(body)
decodeNotification(body) ==
    IF ~HasData(body) THEN Thrown("Error: Invalid Pub/Sub message format")
    ELSE IF ~ParsesAsJson(ToUtf8String(PayloadOf(body))) THEN Thrown("SyntaxError")
    ELSE [threw |-> FALSE, error |-> "", emailAddress |-> body[3],
          historyId |-> body[4]]

\* What an invocation remembers of the pass its slot ran just before it.
\* replayLen: when this notification re-delivers that pass's notification and
\* that pass got its delta, the log length that delta reached; else NULL.
\* lost: the qualifying ids that pass left unfetched although they lie at or
\* before the historyId it stored.
NoPass == [replayLen |-> NULL, lost |-> {}]

PassOf(w, e, hid) ==
    IF w.pc = "done" /\ w.outcome = "ok" /\ w.emailAddress = e
    THEN [replayLen |-> IF w.historyId = hid
                        THEN w.start + Len(w.history) ELSE NULL,
          lost      |-> {id \in Range(w.newMessageIds) \ Range(w.attempts) :
                           id[1] <= w.historyId}]
    ELSE NoPass

IdleHandler ==
    [pc            |-> "idle",
     emailAddress  |-> "a",
     historyId     |-> NULL,
     responses     |-> <<>>,
     cursorBefore  |-> NULL,
     start         |-> NULL,
     outcome       |-> "none",
     history       |-> <<>>,
     newMessageIds |-> <<>>,
     attempts      |-> <<>>,
     newEmails     |-> <<>>,
     failed        |-> <<>>,
     calls         |-> <<>>,
     prev          |-> NoPass,
     body          |-> NoDataBody,
     thrown        |-> "",
     arrivedDuring |-> {}]

\* The invocations suspended on a provider call for identity e.
AwaitingProvider(e) ==
    {k \in HandlerIds : wh[k].pc \in {"history", "fetch"} /\ wh[k].emailAddress = e}

\* res.status(200).send('OK'); decodeNotification(req.body); a throw of the
\* decoder is caught by the handler's catch
WebhookReceiveBody(h, body) ==
    /\ wh[h].pc \in {"idle", "done"}
    /\ LET d == decodeNotification(body)
       IN  wh' = [wh EXCEPT ![h] =
                    IF d.threw
                    THEN [IdleHandler EXCEPT !.pc = "done",
                                             !.outcome = "malformed",
                                             !.responses = <<200>>,
                                             !.body = body,
                                             !.thrown = d.error]
                    ELSE [IdleHandler EXCEPT
                            !.pc = "find",
                            !.emailAddress = d.emailAddress,
                            !.historyId = d.historyId,
                            !.responses = <<200>>,
                            !.cursorBefore = users[d.emailAddress].lastHistoryId,
                            !.prev = PassOf(wh[h], d.emailAddress, d.historyId),
                            !.body = body,
                            !.arrivedDuring =
                                AwaitingProvider(d.emailAddress) \ {h}]]
    /\ UNCHANGED <<users, mailbox, horizon, connections, now, wr, channel, sent>>

\* A notification of the provider: the payload is the JSON of
\* { emailAddress, historyId }
WebhookReceive(h, e, hid) == WebhookReceiveBody(h, Body("json", e, hid))

\* A body whose payload has a byte that is not UTF-8 inside a string value
\* the decoder does not read.
WebhookReceiveLossy(h, e, hid) ==
    WebhookReceiveBody(h, Body("badUtf8InString", e, hid))

\* A lookup without the `if (!user) return`.
WebhookFindUserNoCheck(h) ==
    /\ wh[h].pc = "find"
    /\ LET e == wh[h].emailAddress IN
       wh' = [wh EXCEPT ![h].pc = "history",
                        ![h].start = StartCursor(users[e].lastHistoryId,
                                                 wh[h].historyId)]
    /\ UNCHANGED <<users, mailbox, horizon, connections, now, wr, channel, sent>>

\* User.findOne({ email }); if (!user) return
WebhookFindUser(h) ==
    /\ wh[h].pc = "find"
    /\ LET e == wh[h].emailAddress IN
       IF ~users[e].exists
       THEN wh' = [wh EXCEPT ![h].pc = "done", ![h].outcome = "unknown"]
       ELSE wh' = [wh EXCEPT ![h].pc = "history",
                             ![h].start = StartCursor(users[e].lastHistoryId,
                                                      wh[h].historyId)]
    /\ UNCHANGED <<users, mailbox, horizon, connections, now, wr, channel, sent>>

\* The stale branch falling through to the cursor update.
WebhookHistoryStaleAdvances(h) ==
    /\ wh[h].pc = "history"
    /\ HistoryIsStale(wh[h].emailAddress, wh[h].start)
    /\ wh' = [wh EXCEPT ![h].pc = "done",
                        ![h].outcome = "stale",
                        ![h].calls = Append(@, Call(wh[h].emailAddress,
                                                    "email:sync_required", <<>>))]
    /\ users' = [users EXCEPT ![wh[h].emailAddress].lastHistoryId = wh[h].historyId]
    /\ UNCHANGED <<mailbox, horizon, connections, now, wr, channel, sent>>

\* getHistory answered 404: sendToUser(email, 'email:sync_required'); return
WebhookHistoryStale(h) ==
    /\ wh[h].pc = "history"
    /\ HistoryIsStale(wh[h].emailAddress, wh[h].start)
    /\ wh' = [wh EXCEPT ![h].pc = "done",
                        ![h].outcome = "stale",
                        ![h].calls = Append(@, Call(wh[h].emailAddress,
                                                    "email:sync_required", <<>>))]
    /\ UNCHANGED <<users, mailbox, horizon, connections, now, wr, channel, sent>>

\* Every failure of getHistory treated as the stale-cursor signal.
WebhookHistoryErrorSignals(h) ==
    /\ wh[h].pc = "history"
    /\ wh' = [wh EXCEPT ![h].pc = "done", ![h].outcome = "error",
                        ![h].calls = Append(@, Call(wh[h].emailAddress,
                                                    "email:sync_required", <<>>))]
    /\ UNCHANGED <<users, mailbox, horizon, connections, now, wr, channel, sent>>

\* A catch block that reports the failure to the notification transport.
WebhookHistoryErrorAnswers(h) ==
    /\ wh[h].pc = "history"
    /\ wh' = [wh EXCEPT ![h].pc = "done", ![h].outcome = "error",
                        ![h].responses = Append(@, 500)]
    /\ UNCHANGED <<users, mailbox, horizon, connections, now, wr, channel, sent>>

\* getHistory throws another error: caught by the handler's catch
WebhookHistoryError(h) ==
    /\ wh[h].pc = "history"
    /\ wh' = [wh EXCEPT ![h].pc = "done", ![h].outcome = "error"]
    /\ UNCHANGED <<users, mailbox, horizon, connections, now, wr, channel, sent>>

\* getHistory returns the delta; the handler extracts newMessageIds
WebhookHistoryOk(h) ==
    /\ wh[h].pc = "history"
    /\ ~HistoryIsStale(wh[h].emailAddress, wh[h].start)
    /\ LET hist == HistoryAfter(wh[h].emailAddress, wh[h].start)
           ids  == ExtractNewMessageIds(hist)
       IN wh' = [wh EXCEPT ![h].pc = IF Len(ids) > 0 THEN "fetch" ELSE "update",
                           ![h].outcome = "ok",
                           ![h].history = hist,
                           ![h].newMessageIds = ids]
    /\ UNCHANGED <<users, mailbox, horizon, connections, now, wr, channel, sent>>

\* The event sent after the fetch loop whatever it produced.
AfterFetchAlwaysSends(w) ==
    IF Len(w.attempts) = Len(Slice(w.newMessageIds))
    THEN [w EXCEPT !.pc = "update",
                   !.calls = Append(@, Call(w.emailAddress, "email:new",
                                            [count  |-> Len(w.newEmails),
                                             emails |-> w.newEmails]))]
    ELSE w

\* after the fetch loop: if (newEmails.length > 0) sendToUser(..., 'email:new')
AfterFetch(w) ==
    IF Len(w.attempts) = Len(Slice(w.newMessageIds))
    THEN [w EXCEPT !.pc = "update",
                   !.calls = IF Len(w.newEmails) > 0
                             THEN Append(@, Call(w.emailAddress, "email:new",
                                                 [count  |-> Len(w.newEmails),
                                                  emails |-> w.newEmails]))
                             ELSE @]
    ELSE w

\* The fetch loop without its inner try/catch: a throwing getEmail ends the
\* pass in the handler's catch.
WebhookFetchAborts(h, ok) ==
    /\ wh[h].pc = "fetch"
    /\ ~ok => Len(wh[h].attempts) - Len(wh[h].newEmails) < MaxFetchFailures
    /\ LET id == Slice(wh[h].newMessageIds)[Len(wh[h].attempts) + 1]
           w  == [wh[h] EXCEPT !.attempts = Append(@, id),
                               !.newEmails = IF ok THEN Append(@, id) ELSE @,
                               !.failed = IF ok THEN @ ELSE Append(@, id)]
       IN wh' = [wh EXCEPT ![h] = IF ok THEN AfterFetch(w)
                                  ELSE [w EXCEPT !.pc = "done"]]
    /\ UNCHANGED <<users, mailbox, horizon, connections, now, wr, channel, sent>>

\* one iteration of the fetch loop: getEmail succeeds or throws
WebhookFetch(h, ok) ==
    /\ wh[h].pc = "fetch"
    /\ ~ok => Len(wh[h].attempts) - Len(wh[h].newEmails) < MaxFetchFailures
    /\ LET id == Slice(wh[h].newMessageIds)[Len(wh[h].attempts) + 1]
           w  == [wh[h] EXCEPT !.attempts = Append(@, id),
                               !.newEmails = IF ok THEN Append(@, id) ELSE @,
                               !.failed = IF ok THEN @ ELSE Append(@, id)]
       IN wh' = [wh EXCEPT ![h] = AfterFetch(w)]
    /\ UNCHANGED <<users, mailbox, horizon, connections, now, wr, channel, sent>>

\* The cursor update moved inside the newEmails.length > 0 branch.
WebhookUpdateIfDelivered(h) ==
    /\ wh[h].pc = "update"
    /\ users' = IF Len(wh[h].newEmails) > 0
                THEN [users EXCEPT ![wh[h].emailAddress].lastHistoryId =
                                       wh[h].historyId]
                ELSE users
    /\ wh' = [wh EXCEPT ![h].pc = "done"]
    /\ UNCHANGED <<mailbox, horizon, connections, now, wr, channel, sent>>

\* User.updateOne({ email }, { lastHistoryId: historyId })
WebhookUpdate(h) ==
    /\ wh[h].pc = "update"
    /\ users' = [users EXCEPT ![wh[h].emailAddress].lastHistoryId = wh[h].historyId]
    /\ wh' = [wh EXCEPT ![h].pc = "done"]
    /\ UNCHANGED <<mailbox, horizon, connections, now, wr, channel, sent>>

\* The body decoded before the acknowledgment: the throw reaches the catch
\* with nothing sent.
WebhookReceiveMalformedUnacked(h) ==
    /\ wh[h].pc \in {"idle", "done"}
    /\ wh' = [wh EXCEPT ![h] =
                [IdleHandler EXCEPT !.pc = "done", !.outcome = "malformed"]]
    /\ UNCHANGED <<users, mailbox, horizon, connections, now, wr, channel, sent>>

\* res.status(200).send('OK'); decodeNotification(req.body) throws (no
\* message.data, or data that is not JSON): caught by the handler's catch
WebhookReceiveMalformed(h) ==
    \E body \in UndecodableBodies : WebhookReceiveBody(h, body)

\* User.findOne rejects: caught by the handler's catch
WebhookFindFails(h) ==
    /\ wh[h].pc = "find"
    /\ wh' = [wh EXCEPT ![h].pc = "done", ![h].outcome = "storeError"]
    /\ UNCHANGED <<users, mailbox, horizon, connections, now, wr, channel, sent>>

\* User.updateOne rejects: caught by the handler's catch
WebhookUpdateFails(h) ==
    /\ wh[h].pc = "update"
    /\ wh' = [wh EXCEPT ![h].pc = "done", ![h].outcome = "storeError"]
    /\ UNCHANGED <<users, mailbox, horizon, connections, now, wr, channel, sent>>

\* ------------------------------------------------------ watch registration
\* A JavaScript truthiness test of a stored number.
Truthy(x) == x # NULL /\ x # 0

\* The validity test with >= in place of >.
WatchStillValidAtMargin(user, t) ==
    /\ user.exists
    /\ Truthy(user.watchExpiration)
    /\ user.watchExpiration >= t + OneHour

\* The validity test with a buffer of two hours.
WatchStillValidLongBuffer(user, t) ==
    /\ user.exists
    /\ Truthy(user.watchExpiration)
    /\ user.watchExpiration > t + 2 * OneHour

\* user?.watchExpiration && user.watchExpiration > (now + oneHour)
WatchStillValid(user, t) ==
    /\ user.exists
    /\ Truthy(user.watchExpiration)
    /\ user.watchExpiration > t + OneHour

\* res.json({ success, historyId, expiration, skipped })
JsonOk(historyId, expiration, skipped) ==
    [status |-> 200, success |-> TRUE, historyId |-> historyId,
     expiration |-> expiration, skipped |-> skipped, error |-> FALSE]

\* res.status(400).json({ error: error.message })
JsonError ==
    [status |-> 400, success |-> FALSE, historyId |-> NULL, expiration |-> NULL,
     skipped |-> FALSE, error |-> TRUE]

IdleWatch ==
    [pc          |-> "idle",
     sub         |-> "a",
     before      |-> NoUser,
     user        |-> NoUser,
     nowAtCheck  |-> 0,
     remoteCalls |-> 0,
     result      |-> [historyId |-> NULL, expiration |-> NULL],
     responses   |-> <<>>]

\* POST /auth/watch arrives with a token whose subject is sub.
WatchRequest(r, sub) ==
    /\ wr[r].pc \in {"idle", "done"}
    /\ wr' = [wr EXCEPT ![r] = [IdleWatch EXCEPT !.pc = "find",
                                                 !.sub = sub,
                                                 !.before = users[sub]]]
    /\ UNCHANGED <<users, mailbox, horizon, connections, now, wh, channel, sent>>

\* User.findOne; the validity test; the skipped answer when it passes
WatchFindUser(r) ==
    /\ wr[r].pc = "find"
    /\ LET user == users[wr[r].sub] IN
       IF WatchStillValid(user, now)
       THEN wr' = [wr EXCEPT ![r].pc = "done",
                             ![r].user = user,
                             ![r].nowAtCheck = now,
                             ![r].responses =
                                 Append(@, JsonOk(user.lastHistoryId,
                                                  user.watchExpiration, TRUE))]
       ELSE wr' = [wr EXCEPT ![r].pc = "register",
                             ![r].user = user,
                             ![r].nowAtCheck = now]
    /\ UNCHANGED <<users, mailbox, horizon, connections, now, wh, channel, sent>>

\* registerGmailWatch returns { historyId, expiration }
WatchRegisterOk(r) ==
    /\ wr[r].pc = "register"
    /\ wr' = [wr EXCEPT ![r].pc = "update",
                        ![r].remoteCalls = @ + 1,
                        ![r].result = [historyId  |-> Len(mailbox[wr[r].sub]),
                                       expiration |-> now + WatchLifetime]]
    /\ UNCHANGED <<users, mailbox, horizon, connections, now, wh, channel, sent>>

\* registerGmailWatch swallowing the provider error: the route goes on to the
\* update with an undefined result.
WatchRegisterFailSwallowed(r) ==
    /\ wr[r].pc = "register"
    /\ wr' = [wr EXCEPT ![r].pc = "update", ![r].remoteCalls = @ + 1]
    /\ UNCHANGED <<users, mailbox, horizon, connections, now, wh, channel, sent>>

\* registerGmailWatch throws: the route answers 400
WatchRegisterFail(r) ==
    /\ wr[r].pc = "register"
    /\ wr' = [wr EXCEPT ![r].pc = "done",
                        ![r].remoteCalls = @ + 1,
                        ![r].responses = Append(@, JsonError)]
    /\ UNCHANGED <<users, mailbox, horizon, connections, now, wh, channel, sent>>

\* The update with an empty filter: every document is written.
WatchUpdateEveryUser(r) ==
    /\ wr[r].pc = "update"
    /\ users' = [e \in Emails |->
                  IF users[e].exists
                  THEN [users[e] EXCEPT
                          !.watchExpiration = wr[r].result.expiration,
                          !.lastHistoryId = wr[r].result.historyId]
                  ELSE users[e]]
    /\ wr' = [wr EXCEPT ![r].pc = "done",
                        ![r].responses =
                            Append(@, JsonOk(wr[r].result.historyId,
                                             wr[r].result.expiration, FALSE))]
    /\ UNCHANGED <<mailbox, horizon, connections, now, wh, channel, sent>>

\* User.findOneAndUpdate (no upsert); res.json({ success, historyId, expiration })
WatchUpdate(r) ==
    /\ wr[r].pc = "update"
    /\ users' = IF users[wr[r].sub].exists
                THEN [users EXCEPT
                        ![wr[r].sub].watchExpiration = wr[r].result.expiration,
                        ![wr[r].sub].lastHistoryId = wr[r].result.historyId]
                ELSE users
    /\ wr' = [wr EXCEPT ![r].pc = "done",
                        ![r].responses =
                            Append(@, JsonOk(wr[r].result.historyId,
                                             wr[r].result.expiration, FALSE))]
    /\ UNCHANGED <<mailbox, horizon, connections, now, wh, channel, sent>>

\* Half an hour passes.
Tick ==
    /\ now < MaxTime
    /\ now' = now + 1
    /\ UNCHANGED <<users, mailbox, horizon, connections, wh, wr, channel, sent>>

\* ---------------------------------------------------------------- sign-in
\* An upsert that replaces the whole document with the sign-in fields.
SignInReplaces(e) ==
    /\ users' = [users EXCEPT ![e] = NewUser]
    /\ UNCHANGED <<mailbox, horizon, connections, now, wh, wr, channel, sent>>

\* GET /auth/callback: User.findOneAndUpdate({ email }, { email, name,
\* picture, googleAccessToken, googleRefreshToken, updatedAt }, { upsert })
\* sets the listed fields and creates the document when there is none.
SignIn(e) ==
    /\ users' = [users EXCEPT ![e] = IF @.exists THEN @ ELSE NewUser]
    /\ UNCHANGED <<mailbox, horizon, connections, now, wh, wr, channel, sent>>

\* ------------------------------------------------------------ environment
\* The mailbox changes: the provider appends a history record.
MailboxChange(e, shape) ==
    /\ Len(mailbox[e]) < MaxLog
    /\ mailbox' = [mailbox EXCEPT ![e] = Append(@, shape)]
    /\ UNCHANGED <<users, horizon, connections, now, wh, wr, channel, sent>>

\* The provider drops its oldest history: one more start cursor goes stale.
HistoryExpires(e) ==
    /\ horizon[e] < Len(mailbox[e])
    /\ horizon' = [horizon EXCEPT ![e] = @ + 1]
    /\ UNCHANGED <<users, mailbox, connections, now, wh, wr, channel, sent>>

\* ------------------------------------------------------------ SSE registry
\* createSSEHandler: connections.get(email).add(res)
SSEOpen(c, e) ==
    /\ \A x \in DOMAIN connections : c \notin connections[x]
    /\ connections' =
         IF e \in DOMAIN connections
         THEN [connections EXCEPT ![e] = @ \cup {c}]
         ELSE [x \in DOMAIN connections \cup {e} |->
                 IF x = e THEN {c} ELSE connections[x]]
    /\ UNCHANGED <<users, mailbox, horizon, now, wh, wr, channel, sent>>

\* req.on('close'): userConns.delete(res); delete the key of an empty set
SSEClose(c, e) ==
    /\ e \in DOMAIN connections
    /\ c \in connections[e]
    /\ connections' =
         IF connections[e] \ {c} = {}
         THEN [x \in DOMAIN connections \ {e} |-> connections[x]]
         ELSE [connections EXCEPT ![e] = @ \ {c}]
    /\ UNCHANGED <<users, mailbox, horizon, now, wh, wr, channel, sent>>

\* ---------------------------------------------------------------- SSE hub
\* `event: <event>\ndata: <JSON>\n\n`
Frame(event) == [event |-> event, data |-> "payload"]

\* `event: connected\ndata: {"email": <email>}\n\n`
Connected(email) == [event |-> "connected", data |-> email]

\* `: ping\n\n`
Ping == [event |-> "ping", data |-> ""]

\* What a request for /events carries: req.query.token or the bearer token.
NoCredential == [present |-> FALSE, valid |-> FALSE, sub |-> ""]
BadCredential == [present |-> TRUE, valid |-> FALSE, sub |-> "a"]
TokenFor(e) == [present |-> TRUE, valid |-> TRUE, sub |-> e]

\* A response object no request has used.
NewChannel ==
    [state |-> "new", cred |-> NoCredential, email |-> "", status |-> 0,
     error |-> "", frames |-> <<>>, timer |-> FALSE, broken |-> FALSE, closes |-> 0,
     threw |-> FALSE]

\* res.status(401).json({ error })
Rejected(cred, error) ==
    [NewChannel EXCEPT !.state = "rejected", !.cred = cred, !.status = 401,
                       !.error = error]

NoSend ==
    [active |-> FALSE, to |-> "", event |-> "", writes |-> <<>>,
     returned |-> FALSE]

\* connections.get(email), undefined read as no response object
ConnectionsOf(email) ==
    IF email \in DOMAIN connections THEN connections[email] ELSE {}

\* A count of the registry's keys.
CountKeys == Cardinality(DOMAIN connections)

\* getConnectionCount
RECURSIVE SumSizes(_)
SumSizes(keys) ==
    IF keys = {} THEN 0
    ELSE LET k == CHOOSE x \in keys : TRUE
         IN  Cardinality(connections[k]) + SumSizes(keys \ {k})

getConnectionCount == SumSizes(DOMAIN connections)

\* res.write on a response whose connection is gone returns false and leaves
\* nothing on the wire; it does not throw.
Written(ch, frame) ==
    IF ch.broken THEN ch ELSE [ch EXCEPT !.frames = Append(@, frame)]

\* Room in the record of frames for one more write.
HasRoom(c) == channel[c].broken \/ Len(channel[c].frames) < MaxFrames

\* A loop that stops at a response whose write failed.
WriteCallsUntilFailure(targets) ==
    IF \E c \in targets : channel[c].broken
    THEN [c \in {CHOOSE x \in targets : channel[x].broken} |-> 1]
    ELSE [c \in targets |-> 1]

\* A loop that writes the message twice on each response.
WriteCallsTwice(targets) == [c \in targets |-> 2]

\* for (const res of userConns) res.write(message): the calls of res.write
WriteCalls(targets) == [c \in targets |-> 1]

\* if (!token) return res.status(401).json({ error: 'Token required' })
SSEConnectNoToken(c) ==
    /\ channel[c].state \in {"new", "rejected", "closed"}
    /\ ~NoCredential.present
    /\ channel' = [channel EXCEPT ![c] = Rejected(NoCredential, "Token required")]
    /\ sent' = NoSend
    /\ UNCHANGED <<users, mailbox, horizon, connections, now, wh, wr>>

\* A handler that goes on with the claims of a token it could not verify.
SSEConnectUnverified(c) ==
    /\ channel[c].state \in {"new", "rejected", "closed"}
    /\ channel' = [channel EXCEPT ![c] =
                     [NewChannel EXCEPT !.state = "open", !.status = 200,
                                        !.cred = BadCredential,
                                        !.email = BadCredential.sub,
                                        !.frames = <<Connected(BadCredential.sub)>>,
                                        !.timer = TRUE]]
    /\ connections' =
         [x \in DOMAIN connections \cup {BadCredential.sub} |->
             ConnectionsOf(x) \cup
                 (IF x = BadCredential.sub THEN {c} ELSE {})]
    /\ sent' = NoSend
    /\ UNCHANGED <<users, mailbox, horizon, now, wh, wr>>

\* jwt.verify throws: return res.status(401).json({ error: 'Invalid token' })
SSEConnectInvalid(c) ==
    /\ channel[c].state \in {"new", "rejected", "closed"}
    /\ BadCredential.present /\ ~BadCredential.valid
    /\ channel' = [channel EXCEPT ![c] = Rejected(BadCredential, "Invalid token")]
    /\ sent' = NoSend
    /\ UNCHANGED <<users, mailbox, horizon, connections, now, wh, wr>>

\* A handler that registers the response without the initial message.
SSEConnectSilent(c, e) ==
    /\ channel[c].state \in {"new", "rejected", "closed"}
    /\ channel' = [channel EXCEPT ![c] =
                     [NewChannel EXCEPT !.state = "open", !.status = 200,
                                        !.cred = TokenFor(e),
                                        !.email = TokenFor(e).sub,
                                        !.timer = TRUE]]
    /\ connections' =
         [x \in DOMAIN connections \cup {e} |->
             ConnectionsOf(x) \cup (IF x = e THEN {c} ELSE {})]
    /\ sent' = NoSend
    /\ UNCHANGED <<users, mailbox, horizon, now, wh, wr>>

\* A hub that keeps the event it could not deliver and replays it to the next
\* response object of the identity.
SSEConnectReplaysLast(c, e) ==
    /\ channel[c].state \in {"new", "rejected", "closed"}
    /\ channel' = [channel EXCEPT ![c] =
                     [NewChannel EXCEPT
                        !.state = "open", !.status = 200,
                        !.cred = TokenFor(e),
                        !.email = TokenFor(e).sub,
                        !.frames =
                            IF sent.active /\ sent.to = e /\ ~sent.returned
                            THEN <<Connected(e), Frame(sent.event)>>
                            ELSE <<Connected(e)>>,
                        !.timer = TRUE]]
    /\ connections' =
         [x \in DOMAIN connections \cup {e} |->
             ConnectionsOf(x) \cup (IF x = e THEN {c} ELSE {})]
    /\ sent' = NoSend
    /\ UNCHANGED <<users, mailbox, horizon, now, wh, wr>>

\* A handler that registers every response object under one fixed key.
SSEConnectAnyKey(c, e) ==
    /\ channel[c].state \in {"new", "rejected", "closed"}
    /\ TokenFor(e).present /\ TokenFor(e).valid
    /\ LET email == TokenFor(e).sub
       IN  /\ channel' = [channel EXCEPT ![c] =
                            [NewChannel EXCEPT !.state = "open",
                                               !.cred = TokenFor(e),
                                               !.status = 200,
                                               !.email = email,
                                               !.frames = <<Connected(email)>>,
                                               !.timer = TRUE]]
           /\ connections' =
                [x \in DOMAIN connections \cup {"a"} |->
                    ConnectionsOf(x) \cup (IF x = "a" THEN {c} ELSE {})]
    /\ sent' = NoSend
    /\ UNCHANGED <<users, mailbox, horizon, now, wh, wr>>

\* A verified token: headers, the 'connected' message, connections.get(email)
\* .add(res), setInterval(keepAlive), req.on('close')
SSEConnect(c, e) ==
    /\ channel[c].state \in {"new", "rejected", "closed"}
    /\ TokenFor(e).present /\ TokenFor(e).valid
    /\ LET email == TokenFor(e).sub
       IN  /\ channel' = [channel EXCEPT ![c] =
                            [NewChannel EXCEPT !.state = "open",
                                               !.cred = TokenFor(e),
                                               !.status = 200,
                                               !.email = email,
                                               !.frames = <<Connected(email)>>,
                                               !.timer = TRUE]]
           /\ connections' =
                [x \in DOMAIN connections \cup {email} |->
                    ConnectionsOf(x) \cup (IF x = email THEN {c} ELSE {})]
    /\ sent' = NoSend
    /\ UNCHANGED <<users, mailbox, horizon, now, wh, wr>>

\* The client's connection goes away; 'close' has not been emitted yet.
TransportBreaks(c) ==
    /\ channel[c].state = "open"
    /\ ~channel[c].broken
    /\ channel' = [channel EXCEPT ![c].broken = TRUE]
    /\ sent' = NoSend
    /\ UNCHANGED <<users, mailbox, horizon, connections, now, wh, wr>>

\* A close handler that leaves the key of an emptied set in the registry.
SSECloseHandlerKeepsKey(c) ==
    /\ channel[c].state \in {"open", "closed"}
    /\ channel[c].closes < MaxCloses
    /\ LET email == channel[c].email
       IN  connections' =
             IF email \notin DOMAIN connections THEN connections
             ELSE [connections EXCEPT ![email] = @ \ {c}]
    /\ channel' = [channel EXCEPT ![c].state = "closed",
                                  ![c].timer = FALSE,
                                  ![c].broken = TRUE,
                                  ![c].closes = @ + 1]
    /\ sent' = NoSend
    /\ UNCHANGED <<users, mailbox, horizon, now, wh, wr>>

\* A close handler without the `if (userConns)` guard.
SSECloseHandlerUnguarded(c) ==
    /\ channel[c].state \in {"open", "closed"}
    /\ channel[c].closes < MaxCloses
    /\ LET email == channel[c].email
           has == email \in DOMAIN connections
       IN  /\ connections' =
                IF ~has THEN connections
                ELSE IF connections[email] \ {c} = {}
                THEN [x \in DOMAIN connections \ {email} |-> connections[x]]
                ELSE [connections EXCEPT ![email] = @ \ {c}]
           /\ channel' = [channel EXCEPT ![c].state = "closed",
                                         ![c].timer = FALSE,
                                         ![c].broken = TRUE,
                                         ![c].closes = @ + 1,
                                         ![c].threw = ~has]
    /\ sent' = NoSend
    /\ UNCHANGED <<users, mailbox, horizon, now, wh, wr>>

\* A close handler without clearInterval(keepAlive).
SSECloseHandlerKeepsTimer(c) ==
    /\ channel[c].state \in {"open", "closed"}
    /\ channel[c].closes < MaxCloses
    /\ LET email == channel[c].email
       IN  connections' =
             IF email \notin DOMAIN connections THEN connections
             ELSE IF connections[email] \ {c} = {}
             THEN [x \in DOMAIN connections \ {email} |-> connections[x]]
             ELSE [connections EXCEPT ![email] = @ \ {c}]
    /\ channel' = [channel EXCEPT ![c].state = "closed",
                                  ![c].broken = TRUE,
                                  ![c].closes = @ + 1]
    /\ sent' = NoSend
    /\ UNCHANGED <<users, mailbox, horizon, now, wh, wr>>

\* A close handler that leaves the response object in its set.
SSECloseHandlerKeepsMember(c) ==
    /\ channel[c].state \in {"open", "closed"}
    /\ channel[c].closes < MaxCloses
    /\ connections' = connections
    /\ channel' = [channel EXCEPT ![c].state = "closed",
                                  ![c].timer = FALSE,
                                  ![c].broken = TRUE,
                                  ![c].closes = @ + 1]
    /\ sent' = NoSend
    /\ UNCHANGED <<users, mailbox, horizon, now, wh, wr>>

\* req.on('close'): clearInterval(keepAlive); if (userConns) {
\* userConns.delete(res); if (userConns.size === 0) connections.delete(email) }
SSECloseHandler(c) ==
    /\ channel[c].state \in {"open", "closed"}
    /\ channel[c].closes < MaxCloses
    /\ LET email == channel[c].email
       IN  connections' =
             IF email \notin DOMAIN connections THEN connections
             ELSE IF connections[email] \ {c} = {}
             THEN [x \in DOMAIN connections \ {email} |-> connections[x]]
             ELSE [connections EXCEPT ![email] = @ \ {c}]
    /\ channel' = [channel EXCEPT ![c].state = "closed",
                                  ![c].timer = FALSE,
                                  ![c].broken = TRUE,
                                  ![c].closes = @ + 1]
    /\ sent' = NoSend
    /\ UNCHANGED <<users, mailbox, horizon, now, wh, wr>>

\* setInterval(() => res.write(`: ping\n\n`), 30000)
Heartbeat(c) ==
    /\ channel[c].timer
    /\ HasRoom(c)
    /\ channel' = [channel EXCEPT ![c] = Written(@, Ping)]
    /\ sent' = NoSend
    /\ UNCHANGED <<users, mailbox, horizon, connections, now, wh, wr>>

\* sendToUser(email, event, data)
HubSend(email, event) ==
    LET calls == WriteCalls(SendToUser(email))
    IN  /\ \A c \in DOMAIN calls : HasRoom(c)
        /\ channel' = [c \in Channels |->
                         IF c \in DOMAIN calls
                         THEN Written(channel[c], Frame(event))
                         ELSE channel[c]]
        /\ sent' = [active |-> TRUE, to |-> email, event |-> event,
                    writes |-> calls,
                    returned |-> (ConnectionsOf(email) # {})]
        /\ UNCHANGED <<users, mailbox, horizon, connections, now, wh, wr>>

\* What is remembered of a broadcast call: no addressee, no return value.
BroadcastCall(event, calls) ==
    [active |-> FALSE, to |-> "*", event |-> event, writes |-> calls,
     returned |-> FALSE]

\* A broadcast that writes to one response object of each identity.
BroadcastOnePerIdentity(event) ==
    LET targets == {CHOOSE c \in connections[e] : TRUE : e \in DOMAIN connections}
    IN  /\ \A c \in targets : HasRoom(c)
        /\ channel' = [c \in Channels |->
                         IF c \in targets
                         THEN Written(channel[c], Frame(event))
                         ELSE channel[c]]
        /\ sent' = BroadcastCall(event, [c \in targets |-> 1])
        /\ UNCHANGED <<users, mailbox, horizon, connections, now, wh, wr>>

\* broadcast(event, data)
Broadcast(event) ==
    LET calls == WriteCalls(UNION {connections[e] : e \in DOMAIN connections})
    IN  /\ \A c \in DOMAIN calls : HasRoom(c)
        /\ channel' = [c \in Channels |->
                         IF c \in DOMAIN calls
                         THEN Written(channel[c], Frame(event))
                         ELSE channel[c]]
        /\ sent' = BroadcastCall(event, calls)
        /\ UNCHANGED <<users, mailbox, horizon, connections, now, wh, wr>>

\* --------------------------------------------------------- specifications
Init ==
    /\ users \in {[e \in Emails |-> IF e = "c" THEN NoUser
                                   ELSE IF e = "a" THEN ua ELSE NewUser] :
                    ua \in {NewUser, WatchedUser}}
    /\ mailbox = [e \in Emails |-> <<>>]
    /\ horizon = [e \in Emails |-> 0]
    /\ connections = <<>>
    /\ now = 0
    /\ wh = [h \in HandlerIds |-> IdleHandler]
    /\ wr = [r \in WatchIds |-> IdleWatch]
    /\ channel = [c \in Channels |-> NewChannel]
    /\ sent = NoSend

\* One notification is reconciled at a time.
Next ==
    \/ \E e \in MailOwners : \E hid \in 1..Len(mailbox[e]) :
          WebhookReceive(1, e, hid)
    \/ WebhookReceive(1, "c", 1)
    \/ WebhookFindUser(1)
    \/ WebhookHistoryStale(1)
    \/ WebhookHistoryError(1)
    \/ WebhookHistoryOk(1)
    \/ \E ok \in BOOLEAN : WebhookFetch(1, ok)
    \/ WebhookUpdate(1)
    \/ \E e \in MailOwners : \E s \in RecordShapes : MailboxChange(e, s)
    \/ \E e \in MailOwners : HistoryExpires(e)
    \/ \E c \in Channels : SSEOpen(c, Subject[c])
    \/ \E c \in Channels : SSEClose(c, Subject[c])

Spec == Init /\ [][Next]_vars

\* One watch-registration request is served at a time, while time passes and
\* the mailbox grows.
NextWatch ==
    \/ \E sub \in Emails : WatchRequest(1, sub)
    \/ WatchFindUser(1)
    \/ WatchRegisterOk(1)
    \/ WatchRegisterFail(1)
    \/ WatchUpdate(1)
    \/ Tick
    \/ \E e \in MailOwners : MailboxChange(e, NoAdded)

SpecWatch == Init /\ [][NextWatch]_vars

\* A run in which nothing fails: the provider answers every history request
\* and every message fetch, and no history expires.  The event loop runs
\* every continuation of the handler, and notifications for the mailbox
\* owner keep arriving.
HandlerStep ==
    \/ WebhookFindUser(1)
    \/ WebhookHistoryOk(1)
    \/ WebhookFetch(1, TRUE)
    \/ WebhookUpdate(1)

Notified ==
    \E e \in MailOwners : \E hid \in 1..Len(mailbox[e]) : WebhookReceive(1, e, hid)

NextFair ==
    \/ Notified
    \/ HandlerStep
    \/ \E e \in MailOwners : \E s \in RecordShapes : MailboxChange(e, s)

FairSpec ==
    /\ Init
    /\ [][NextFair]_vars
    /\ WF_vars(HandlerStep)
    /\ SF_vars(Notified)

\* Any step of the invocation, the failing ones included.
HandlerAnyStep ==
    \/ WebhookFindUser(1)
    \/ WebhookFindFails(1)
    \/ WebhookHistoryStale(1)
    \/ WebhookHistoryError(1)
    \/ WebhookHistoryOk(1)
    \/ \E ok \in BOOLEAN : WebhookFetch(1, ok)
    \/ WebhookUpdate(1)
    \/ WebhookUpdateFails(1)

\* One notification at a time, with bodies that do not decode and an identity
\* store that can fail; one client of the mailbox owner comes and goes.
NextFaults ==
    \/ \E e \in MailOwners : \E hid \in 1..Len(mailbox[e]) : WebhookReceive(1, e, hid)
    \/ WebhookReceive(1, "c", 1)
    \/ WebhookReceiveMalformed(1)
    \/ HandlerAnyStep
    \/ \E e \in MailOwners : \E s \in RecordShapes : MailboxChange(e, s)
    \/ \E e \in MailOwners : HistoryExpires(e)
    \/ SSEOpen("c1", Subject["c1"])
    \/ SSEClose("c1", Subject["c1"])

SpecFaults == Init /\ [][NextFaults]_vars

\* One notification at a time with every kind of request body; the provider
\* and the identity store answer.
NextDecode ==
    \/ \E e \in MailOwners : \E hid \in 1..Len(mailbox[e]) : WebhookReceive(1, e, hid)
    \/ \E e \in MailOwners : \E hid \in 1..Len(mailbox[e]) : WebhookReceiveLossy(1, e, hid)
    \/ WebhookReceiveMalformed(1)
    \/ HandlerStep
    \/ \E e \in MailOwners : \E s \in RecordShapes : MailboxChange(e, s)
    \/ SSEOpen("c1", Subject["c1"])
    \/ SSEClose("c1", Subject["c1"])

SpecDecode == Init /\ [][NextDecode]_vars

\* Two notifications of one mailbox handled at once, and a watch request of
\* its owner; the provider and the identity store answer.
NextRace ==
    \/ \E h \in HandlerIds : \E e \in MailOwners : \E hid \in 1..Len(mailbox[e]) :
          wh[h].pc = "idle" /\ WebhookReceive(h, e, hid)
    \/ \E h \in HandlerIds : WebhookFindUser(h)
    \/ \E h \in HandlerIds : WebhookHistoryOk(h)
    \/ \E h \in HandlerIds : WebhookFetch(h, TRUE)
    \/ \E h \in HandlerIds : WebhookUpdate(h)
    \/ \E e \in MailOwners : wr[1].pc = "idle" /\ WatchRequest(1, e)
    \/ WatchFindUser(1)
    \/ WatchRegisterOk(1)
    \/ WatchUpdate(1)
    \/ \E e \in MailOwners : \E s \in RecordShapes : MailboxChange(e, s)

SpecRace == Init /\ [][NextRace]_vars

\* The hub alone: connects, closes, heartbeats and sends in any order.
NextHub ==
    \/ \E c \in Channels : SSEConnectNoToken(c)
    \/ \E c \in Channels : SSEConnectInvalid(c)
    \/ \E c \in Channels : \E e \in {"a", "b"} : SSEConnect(c, e)
    \/ \E c \in Channels : TransportBreaks(c)
    \/ \E c \in Channels : SSECloseHandler(c)
    \/ \E c \in Channels : Heartbeat(c)
    \/ \E e \in Emails : \E ev \in HubEvents : HubSend(e, ev)
    \/ Broadcast("notice")

SpecHub == Init /\ [][NextHub]_vars

\* The hub with every response object followed from its one request to its
\* end: the router calls the handler once for a request, so a response
\* object that was rejected or closed is never handed to the handler again.
NextChannel ==
    \/ \E c \in Channels : channel[c].state = "new" /\ SSEConnectNoToken(c)
    \/ \E c \in Channels : channel[c].state = "new" /\ SSEConnectInvalid(c)
    \/ \E c \in Channels : \E e \in {"a", "b"} :
          channel[c].state = "new" /\ SSEConnect(c, e)
    \/ \E c \in Channels : TransportBreaks(c)
    \/ \E c \in Channels : SSECloseHandler(c)
    \/ \E c \in Channels : Heartbeat(c)
    \/ \E e \in Emails : \E ev \in HubEvents : HubSend(e, ev)
    \/ Broadcast("notice")

SpecChannel == Init /\ [][NextChannel]_vars

\* A watch request of the mailbox owner is served to its end, and then watch
\* requests are repeated, while time passes and the mailbox grows with
\* changes that add no message; between the first request and the repeated
\* ones notifications are reconciled.
NextRepeat ==
    \/ wr[1].pc = "idle" /\ WatchRequest(1, "a")
    \/ WatchFindUser(1)
    \/ WatchRegisterOk(1)
    \/ WatchUpdate(1)
    \/ wr[1].pc = "done" /\ WatchRequest(2, "a")
    \/ WatchFindUser(2)
    \/ WatchRegisterOk(2)
    \/ WatchUpdate(2)
    \/ Tick
    \/ \E e \in MailOwners : MailboxChange(e, NoAdded)
    \/ wr[1].pc = "done" /\ wr[2].pc = "idle" /\ Notified
    \/ WebhookFindUser(1)
    \/ WebhookHistoryOk(1)
    \/ WebhookUpdate(1)

SpecRepeat == Init /\ [][NextRepeat]_vars

\* Notifications of the mailbox owner are reconciled one at a time and the
\* owner's client, some time after the start, makes a watch request, while
\* the provider drops old history at any moment; the provider answers every
\* request and the changes of the mailbox add no message.
NextStale ==
    \/ Notified
    \/ WebhookFindUser(1)
    \/ WebhookHistoryStale(1)
    \/ WebhookHistoryOk(1)
    \/ WebhookUpdate(1)
    \/ \E e \in MailOwners : MailboxChange(e, NoAdded)
    \/ \E e \in MailOwners : HistoryExpires(e)
    \/ \E e \in MailOwners : wr[1].pc = "idle" /\ WatchRequest(1, e)
    \/ WatchFindUser(1)
    \/ WatchRegisterOk(1)
    \/ WatchUpdate(1)
    \/ wr[1].pc = "idle" /\ Tick

SpecStale == Init /\ [][NextStale]_vars

\* No client has connected and nothing was sent.
HubUntouched ==
    /\ channel = [c \in Channels |-> NewChannel]
    /\ connections = <<>>
    /\ sent = NoSend

\* Nothing but the hub has run.
StoreUntouched ==
    /\ wh[1].pc = "idle" /\ wr[1].pc = "idle"
    /\ now = 0
    /\ \A e \in Emails : mailbox[e] = <<>>
    /\ ~users["c"].exists

\* Every operation that reads or writes the identity store or the registry.
\* Either the hub runs alone, with one client that connects, is sent events
\* and closes; or the store's operations run with no client connected: a
\* notification of any kind with any failure, a watch request and sign-ins,
\* after some time passed and the mailbox changed, and while the provider
\* drops old history.
NextFrame ==
    \/ \E e \in {"a", "c"} : StoreUntouched /\ SSEConnect("c1", e)
    \/ StoreUntouched /\ SSECloseHandler("c1")
    \/ \E e \in {"a", "c"} : StoreUntouched /\ HubSend(e, "email:new")
    \/ StoreUntouched /\ Broadcast("notice")
    \/ HubUntouched /\ wh[1].pc = "idle" /\ Notified
    \/ HubUntouched /\ wh[1].pc = "idle" /\ WebhookReceive(1, "c", 1)
    \/ HubUntouched /\ wh[1].pc = "idle" /\ WebhookReceiveMalformed(1)
    \/ HandlerAnyStep
    \/ HubUntouched /\ wr[1].pc = "idle" /\ WatchRequest(1, "a")
    \/ WatchFindUser(1)
    \/ WatchRegisterOk(1)
    \/ WatchRegisterFail(1)
    \/ WatchUpdate(1)
    \/ HubUntouched /\ wr[1].pc = "idle" /\ Tick
    \/ \E e \in MailOwners : \E s \in {NoAdded, Added(<<TRUE>>)} :
          HubUntouched /\ wh[1].pc = "idle" /\ MailboxChange(e, s)
    \/ \E e \in MailOwners : HistoryExpires(e)
    \/ \E e \in {"a", "c"} : HubUntouched /\ SignIn(e)

SpecFrame == Init /\ [][NextFrame]_vars

\* Notifications for the mailbox owner and for an identity the store does
\* not have, reconciled one at a time, while one client connects and closes
\* under either identity; the provider and the identity store answer.
NextUnknown ==
    \/ Notified
    \/ WebhookReceive(1, "c", 1)
    \/ HandlerStep
    \/ \E e \in MailOwners : \E s \in {NoAdded, Added(<<TRUE>>)} : MailboxChange(e, s)
    \/ \E e \in {"a", "c"} : SSEConnect("c1", e)
    \/ SSECloseHandler("c1")

SpecUnknown == Init /\ [][NextUnknown]_vars

\* ------------------------------------------------------------------ claims
\* The invocation the sequential specification runs.
W == wh[1]

PassDone == W.pc = "done"

StoredCursor(e) == users[e].lastHistoryId

\* The calls of sendToUser a pass made for one event name.
CallsOf(w, event) == {i \in DOMAIN w.calls : w.calls[i].event = event}

\* C1: a pass that ends on the stale-cursor signal leaves the stored
\* last_history_id of the notified identity as it was before the notification,
\* whatever historyId the notification carried.
C1_StaleLeavesCursor ==
    (PassDone /\ W.outcome = "stale")
        => StoredCursor(W.emailAddress) = W.cursorBefore

C1_Witness ==
    /\ PassDone
    /\ W.outcome = "stale"
    /\ W.cursorBefore # NULL
    /\ W.historyId # W.cursorBefore

\* C2: a pass for a known identity whose history request succeeded ends with
\* the stored last_history_id equal to the notification's historyId, also when
\* nothing qualified, when fetches failed and when no channel is registered.
C2_CursorAdvances ==
    (PassDone /\ W.outcome = "ok")
        => StoredCursor(W.emailAddress) = W.historyId

C2_Witness ==
    /\ PassDone
    /\ W.outcome = "ok"
    /\ W.cursorBefore # W.historyId
    /\ W.newMessageIds # <<>>
    /\ W.newEmails = <<>>
    /\ SendToUser(W.emailAddress) = {}

\* C3: a notification re-delivered right after a pass that reconciled it, with
\* no mailbox change since that pass got its delta, yields no new message
\* ids and no 'email:new' event and leaves the cursor at its historyId.
C3_ReplayIsNoOp ==
    (/\ PassDone
     /\ W.outcome = "ok"
     /\ W.prev.replayLen # NULL
     /\ W.prev.replayLen = Len(mailbox[W.emailAddress]))
        => /\ W.newMessageIds = <<>>
           /\ CallsOf(W, "email:new") = {}
           /\ StoredCursor(W.emailAddress) = W.historyId

\* Every message id a mailbox log can hold (a record adds at most 4 messages).
MsgIds == (1..MaxLog) \X (1..4)

\* Qualifying ids a finished pass selected out by the cap.
ExcessOf(w) == Range(w.newMessageIds) \ Range(w.attempts)

\* C4 as claimed: a qualifying message left unfetched by a capped pass that
\* advanced the cursor is fetched by a later pass for the identity.
C4_ExcessFetchedLater ==
    \A m \in MsgIds :
        (PassDone /\ W.outcome = "ok" /\ m \in ExcessOf(W)
            /\ StoredCursor(W.emailAddress) = W.historyId)
        ~> (m \in Range(W.attempts))

\* C4 as amended: a pass fetches only messages of records after its start
\* cursor, and the pass that follows a capped pass fetches none of the
\* qualifying messages that pass left unfetched at or before the historyId
\* it stored.
C4_ExcessNotRefetched ==
    (W.outcome = "ok")
        => /\ \A id \in Range(W.attempts) : id[1] > W.start
           /\ Range(W.attempts) \cap W.prev.lost = {}

C4_Witness ==
    /\ PassDone
    /\ W.outcome = "ok"
    /\ W.prev.lost # {}
    /\ W.start = W.cursorBefore

\* C5: a pass attempts at most 5 fetches, exactly the first min(5, n) of its n
\* qualifying ids in delta order, and a delta with more than 5 qualifying
\* records still ends normally with the rest unfetched.
C5_CapOfFive ==
    /\ Len(W.attempts) <= 5
    /\ W.attempts = SubSeq(W.newMessageIds, 1, Len(W.attempts))
    /\ (W.outcome = "ok" /\ W.pc \in {"update", "done"})
          => Len(W.attempts) = (IF Len(W.newMessageIds) < 5
                                THEN Len(W.newMessageIds) ELSE 5)
    /\ (PassDone /\ W.outcome = "ok")
          => StoredCursor(W.emailAddress) = W.historyId

C5_Witness ==
    /\ PassDone
    /\ W.outcome = "ok"
    /\ Len(W.newMessageIds) = 8
    /\ Len(W.attempts) = 5
    /\ W.failed = <<>>

\* C6: when a fetch fails the pass goes on: every other selected message is
\* fetched and is in the 'email:new' payload, the failed one is not, and the
\* cursor advances to the notification's historyId.
C6_FetchFailureSkipped ==
    (PassDone /\ W.outcome = "ok" /\ W.failed # <<>>)
        => /\ Len(W.attempts) = (IF Len(W.newMessageIds) < 5
                                 THEN Len(W.newMessageIds) ELSE 5)
           /\ W.newEmails = SelectSeq(W.attempts,
                                      LAMBDA id : id \notin Range(W.failed))
           /\ W.newEmails # <<>>
                => /\ Cardinality(CallsOf(W, "email:new")) = 1
                   /\ \A i \in CallsOf(W, "email:new") :
                        /\ W.calls[i].payload.emails = W.newEmails
                        /\ W.calls[i].to = W.emailAddress
           /\ W.newEmails = <<>> => CallsOf(W, "email:new") = {}
           /\ StoredCursor(W.emailAddress) = W.historyId

C6_Witness ==
    /\ PassDone
    /\ W.outcome = "ok"
    /\ \E i, j \in DOMAIN W.attempts :
          /\ i < j
          /\ W.attempts[i] \in Range(W.failed)
          /\ W.attempts[j] \in Range(W.newEmails)
    /\ \E i \in CallsOf(W, "email:new") : W.calls[i].wrote # {}

\* The ids of the INBOX messages of the message-added records of a delta.
InboxIdsIn(history) ==
    UNION {{<<history[k].pos, i>> : i \in {j \in DOMAIN history[k].labels :
                                             history[k].labels[j]}} :
           k \in {n \in DOMAIN history : history[n].hasAdded}}

\* Delta order: by record, then by position in the record.
Before(x, y) == x[1] < y[1] \/ (x[1] = y[1] /\ x[2] < y[2])

\* C7: the new-message ids of a pass are exactly the ids of the message-added
\* records whose message carries INBOX, in delta order; no other record or
\* message contributes an id or is fetched or delivered.
C7_InboxFilter ==
    (W.outcome = "ok")
        => /\ Range(W.newMessageIds) = InboxIdsIn(W.history)
           /\ \A m, n \in DOMAIN W.newMessageIds :
                m < n => Before(W.newMessageIds[m], W.newMessageIds[n])
           /\ Range(W.attempts) \subseteq InboxIdsIn(W.history)
           /\ \A i \in CallsOf(W, "email:new") :
                Range(W.calls[i].payload.emails) \subseteq InboxIdsIn(W.history)

C7_Witness ==
    /\ PassDone
    /\ W.outcome = "ok"
    /\ W.newEmails # <<>>
    /\ \E k \in DOMAIN W.history : ~W.history[k].hasAdded
    /\ \E k \in DOMAIN W.history :
          \E i \in DOMAIN W.history[k].labels : ~W.history[k].labels[i]

\* C8: the delta is requested from the notification's historyId when the
\* stored last_history_id is absent, and from the stored value otherwise.
C8_StartCursor ==
    (W.pc \in {"history", "fetch", "update", "done"} /\ W.outcome # "unknown")
        => /\ W.cursorBefore = NULL => W.start = W.historyId
           /\ W.cursorBefore # NULL => W.start = W.cursorBefore

C8_Witness ==
    /\ PassDone
    /\ W.outcome = "ok"
    /\ W.cursorBefore # NULL
    /\ W.cursorBefore # W.historyId
    /\ W.start = W.cursorBefore

\* C9: a stale-cursor pass makes exactly one sendToUser call, of
\* 'email:sync_required' to the notified identity, sends no 'email:new',
\* fetches nothing, and writes to no channel of another identity.
C9_StaleSignalsResync ==
    (PassDone /\ W.outcome = "stale")
        => /\ Len(W.calls) = 1
           /\ W.calls[1].event = "email:sync_required"
           /\ W.calls[1].to = W.emailAddress
           /\ CallsOf(W, "email:new") = {}
           /\ W.attempts = <<>>
           /\ \A c \in W.calls[1].wrote : Subject[c] = W.emailAddress

C9_Witness ==
    /\ PassDone
    /\ W.outcome = "stale"
    /\ W.calls[1].wrote # {}
    /\ \E e \in DOMAIN connections : e # W.emailAddress /\ connections[e] # {}

\* The request the sequential watch specification serves.
R == wr[1]

\* C10: a watch request for an identity whose stored watch_expiration is more
\* than one hour after the current time never calls the remote registration,
\* leaves last_history_id and watch_expiration as stored, and answers success
\* with the stored historyId, the stored expiration and skipped = true.
C10_WatchSkipped ==
    (/\ R.pc = "done"
     /\ R.before.exists
     /\ R.before.watchExpiration # NULL
     /\ R.before.watchExpiration - R.nowAtCheck > OneHour)
        => /\ R.remoteCalls = 0
           /\ users[R.sub].lastHistoryId = R.before.lastHistoryId
           /\ users[R.sub].watchExpiration = R.before.watchExpiration
           /\ R.responses = <<JsonOk(R.before.lastHistoryId,
                                     R.before.watchExpiration, TRUE)>>

C10_Witness ==
    /\ R.pc = "done"
    /\ R.before.exists
    /\ R.before.watchExpiration = R.nowAtCheck + 2 * OneHour
    /\ R.before.lastHistoryId # NULL
    /\ R.responses # <<>>
    /\ R.responses[1].skipped

\* The remote registration of the request was called and threw.
RemoteFailed(w) == w.remoteCalls > 0 /\ w.result.expiration = NULL

\* C11: a watch request for an identity whose watch_expiration is absent or
\* at most one hour after the current time calls the remote registration
\* exactly once and, when it succeeds, stores the returned historyId and
\* expiration over the prior values and answers them without skipped = true.
C11_WatchRenewed ==
    (/\ R.pc = "done"
     /\ R.before.exists
     /\ (R.before.watchExpiration = NULL
            \/ R.before.watchExpiration - R.nowAtCheck <= OneHour))
        => /\ R.remoteCalls = 1
           /\ ~RemoteFailed(R)
                => /\ users[R.sub].lastHistoryId = R.result.historyId
                   /\ users[R.sub].watchExpiration = R.result.expiration
                   /\ R.result.expiration # NULL
                   /\ R.result.historyId # NULL
                   /\ R.responses = <<JsonOk(R.result.historyId,
                                             R.result.expiration, FALSE)>>

C11_Witness ==
    /\ R.pc = "done"
    /\ R.before.exists
    /\ R.before.watchExpiration = R.nowAtCheck + OneHour
    /\ R.before.lastHistoryId # NULL
    /\ ~RemoteFailed(R)
    /\ R.result.historyId # R.before.lastHistoryId
    /\ R.result.expiration # R.before.watchExpiration

\* C12: when the remote registration fails the request ends with a 4xx error
\* response, the remote operation was called once, and the identity's
\* last_history_id and watch_expiration are as before.
C12_WatchFailure ==
    (R.pc = "done" /\ RemoteFailed(R))
        => /\ R.responses = <<JsonError>>
           /\ R.responses[1].status >= 400 /\ R.responses[1].status < 500
           /\ R.remoteCalls = 1
           /\ users[R.sub] = R.before

C12_Witness ==
    /\ R.pc = "done"
    /\ RemoteFailed(R)
    /\ R.before.exists
    /\ R.before.watchExpiration # NULL

\* C13: a step of a watch request for identity A, skipped, successful or
\* failed, leaves last_history_id and watch_expiration of every other
\* identity as they are.
C13_WatchTouchesOneIdentity ==
    [][\A b \in Emails :
          users'[b] # users[b] => (R.pc = "update" /\ R.sub = b)]_vars

C13_Witness ==
    /\ R.pc = "done"
    /\ R.sub = "a"
    /\ ~RemoteFailed(R)
    /\ R.remoteCalls = 1
    /\ users["b"].watchExpiration # NULL
    /\ users["b"].watchExpiration # users["a"].watchExpiration
    /\ users["b"].lastHistoryId # users["a"].lastHistoryId

\* The last frame on the wire of a response object, if any.
LastFrame(c) ==
    IF channel[c].frames = <<>> THEN Ping
    ELSE channel[c].frames[Len(channel[c].frames)]

\* C14: sendToUser(a, event, payload) calls write on exactly the response
\* objects registered under a and leaves every other response object as it
\* is; with nothing registered under a it writes nothing and returns false,
\* otherwise it returns true.
C14_SendTargetsIdentity ==
    [][sent'.active =>
          LET targets == ConnectionsOf(sent'.to)
          IN  /\ DOMAIN sent'.writes = targets
              /\ \A c \in Channels \ targets : channel'[c] = channel[c]
              /\ \A c \in targets :
                    channel'[c] = Written(channel[c], Frame(sent'.event))
              /\ sent'.returned = (targets # {})
              /\ connections' = connections]_vars

C14_Witness ==
    /\ sent.active
    /\ sent.returned
    /\ sent.to = "a"
    /\ "c1" \in ConnectionsOf("a")
    /\ "c2" \in ConnectionsOf("b")
    /\ LastFrame("c1") = Frame(sent.event)
    /\ channel["c2"].frames = <<Connected("b")>>

\* C15: when a response object registered under the identity has a failing
\* write, sendToUser still calls write once on every response object of the
\* identity, every healthy one receives the event, and the call returns true.
C15_FailedWriteDoesNotStopOthers ==
    [][(sent'.active /\ \E c \in ConnectionsOf(sent'.to) : channel[c].broken)
          => /\ \A c \in ConnectionsOf(sent'.to) :
                   /\ c \in DOMAIN sent'.writes
                   /\ sent'.writes[c] = 1
                   /\ ~channel[c].broken =>
                        channel'[c].frames =
                            Append(channel[c].frames, Frame(sent'.event))
                   /\ channel[c].broken => channel'[c] = channel[c]
             /\ sent'.returned]_vars

C15_Witness ==
    /\ sent.active
    /\ sent.returned
    /\ \E c, d \in ConnectionsOf(sent.to) :
          /\ channel[c].broken
          /\ channel[c].frames = <<Connected(sent.to)>>
          /\ ~channel[d].broken
          /\ channel[d].frames = <<Connected(sent.to), Frame(sent.event)>>

\* C18: a second run of the close handler of a request does not throw,
\* changes no other response object, and leaves the registry and the
\* connection count as the first run left them.
C18_CloseTwice ==
    [][\A c \in Channels :
          (channel[c].closes >= 1 /\ channel'[c].closes = channel[c].closes + 1)
             => /\ connections' = connections
                /\ getConnectionCount' = getConnectionCount
                /\ ~channel'[c].threw
                /\ channel'[c] = [channel[c] EXCEPT !.closes = @ + 1]
                /\ \A d \in Channels \ {c} : channel'[d] = channel[d]]_vars

C18_Witness ==
    /\ channel["c1"].closes = 2
    /\ channel["c1"].email = "a"
    /\ channel["c2"].state = "open"
    /\ channel["c2"].email = "a"
    /\ connections = [x \in {"a"} |-> {"c2"}]
    /\ getConnectionCount = 1

\* C19: a request for /events with no token, or with a token that fails
\* verification, is answered 401 and stays outside the hub: the step leaves
\* the registry and the connection count as they are, and the response is
\* never registered, has no keep-alive timer and never has a frame written.
C19_Unauthenticated ==
    [][\A c \in Channels :
          (/\ channel'[c].state # "new"
           /\ ~(channel'[c].cred.present /\ channel'[c].cred.valid))
             => /\ channel'[c].state = "rejected"
                /\ channel'[c].status = 401
                /\ channel'[c].frames = <<>>
                /\ ~channel'[c].timer
                /\ \A e \in DOMAIN connections' : c \notin connections'[e]
                /\ channel[c].state # "rejected"
                     => /\ connections' = connections
                        /\ getConnectionCount' = getConnectionCount]_vars

C19_Witness ==
    /\ channel["c1"].state = "rejected"
    /\ channel["c1"].cred = BadCredential
    /\ channel["c1"].error = "Invalid token"
    /\ channel["c2"].state = "open"
    /\ channel["c2"].email = BadCredential.sub
    /\ Len(channel["c2"].frames) = MaxFrames
    /\ LastFrame("c2").event = "email:new"

\* C20: every response object that was registered has a 'connected' message
\* carrying its identity as its first frame, and no second one after it.
C20_ConnectedFirst ==
    \A c \in Channels :
        channel[c].state \in {"open", "closed"}
            => /\ channel[c].frames # <<>>
               /\ channel[c].frames[1] = Connected(channel[c].cred.sub)
               /\ channel[c].email = channel[c].cred.sub
               /\ \A i \in 2..Len(channel[c].frames) :
                     channel[c].frames[i].event # "connected"

C20_Witness ==
    \E c \in Channels :
        /\ channel[c].state = "open"
        /\ channel[c].email = "b"
        /\ c \in ConnectionsOf("b")
        /\ Len(channel[c].frames) = MaxFrames
        /\ LastFrame(c) = Ping

\* C16: whatever an invocation of the webhook handler has got to (decoding,
\* the identity lookup, a provider call, a fan-out), its first response, the
\* 200 acknowledgment, has already been sent.
C16_AckFirst ==
    W.pc # "idle" => (W.responses # <<>> /\ W.responses[1] = 200)

C16_Witness ==
    /\ W.pc = "done"
    /\ W.outcome = "malformed"
    /\ W.responses = <<200>>
    /\ W.calls = <<>>

\* C17: an invocation sends one response in all, the 200 acknowledgment,
\* whether the body fails to decode, the identity is unknown, the cursor is
\* stale, the provider fails or the identity store fails; and an invocation
\* that has not ended always has a step to take.
C17_OneResponse ==
    /\ Len(W.responses) <= 1
    /\ \A i \in DOMAIN W.responses : W.responses[i] >= 200 /\ W.responses[i] < 300
    /\ W.pc = "done" => Len(W.responses) = 1
    /\ W.pc \notin {"idle", "done"} => ENABLED HandlerAnyStep

C17_Witness ==
    /\ W.pc = "done"
    /\ W.outcome = "storeError"
    /\ W.responses = <<200>>
    /\ W.calls # <<>>

\* The response objects whose request was accepted and has not closed.
OpenChannels == {c \in Channels : channel[c].state = "open"}

\* C21: the registry has no key with an empty set; an identity is a key
\* exactly when a response object opened for it has not been closed.
C21_NoEmptySets ==
    /\ \A e \in DOMAIN connections : connections[e] # {}
    /\ \A e \in Emails :
          e \in DOMAIN connections
             <=> \E c \in OpenChannels : channel[c].email = e
    /\ \A e \in DOMAIN connections :
          connections[e] = {c \in OpenChannels : channel[c].email = e}

C21_Witness ==
    /\ channel["c1"].state = "closed"
    /\ channel["c1"].email = "a"
    /\ channel["c2"].state = "open"
    /\ channel["c2"].email = "b"
    /\ DOMAIN connections = {"b"}

\* C22: getConnectionCount is the sum of the sizes of the registry's sets,
\* which is the number of response objects opened and not yet closed.
C22_CountIsOpenChannels ==
    /\ getConnectionCount = Cardinality(OpenChannels)
    /\ getConnectionCount =
          Cardinality(UNION {connections[e] : e \in DOMAIN connections})
    /\ \A e, f \in DOMAIN connections :
          e # f => connections[e] \cap connections[f] = {}

C22_Witness ==
    /\ getConnectionCount = 2
    /\ DOMAIN connections = {"a"}
    /\ connections["a"] = Channels

\* C23: the frames of a response object change only in three ways: a request
\* starts on it with the 'connected' message alone, a request is rejected on
\* it with nothing, or one frame is appended while it is registered; and
\* sendToUser appends only to the response objects registered under the
\* addressee when it is called. An event sent earlier is never written later.
C23_NoBacklog ==
    [][\A c \in Channels :
          channel'[c].frames # channel[c].frames
             => \/ /\ channel[c].state # "open"
                   /\ channel'[c].state = "open"
                   /\ channel'[c].frames = <<Connected(channel'[c].email)>>
                \/ /\ channel[c].state # "open"
                   /\ channel'[c].state = "rejected"
                   /\ channel'[c].frames = <<>>
                \/ /\ channel[c].state = "open"
                   /\ c \in ConnectionsOf(channel[c].email)
                   /\ \E f \in {Ping, Frame("notice")}
                             \cup {Frame(ev) : ev \in HubEvents} :
                         channel'[c].frames = Append(channel[c].frames, f)
                   /\ sent'.active
                        => /\ sent'.to = channel[c].email
                           /\ channel'[c].frames =
                                Append(channel[c].frames, Frame(sent'.event))]_vars

C23_Witness ==
    /\ channel["c1"].state = "closed"
    /\ channel["c1"].email = "a"
    /\ channel["c1"].frames = <<Connected("a"), Frame("email:new")>>
    /\ channel["c2"].state = "open"
    /\ channel["c2"].email = "a"
    /\ ~channel["c2"].broken
    /\ channel["c2"].frames = <<Connected("a")>>

\* C25: broadcast calls write once on every response object of every
\* identity in the registry, each healthy one receives the event, no other
\* response object changes, and the registry and the stored cursors stay as
\* they are.
C25_BroadcastReachesAll ==
    [][sent'.to = "*" =>
          LET targets == UNION {connections[e] : e \in DOMAIN connections}
          IN  /\ DOMAIN sent'.writes = targets
              /\ \A c \in targets :
                    /\ sent'.writes[c] = 1
                    /\ channel'[c] = Written(channel[c], Frame(sent'.event))
              /\ \A c \in Channels \ targets : channel'[c] = channel[c]
              /\ connections' = connections
              /\ users' = users]_vars

C25_Witness ==
    /\ sent.to = "*"
    /\ connections = [x \in {"a"} |-> Channels]
    /\ \A c \in Channels :
          channel[c].frames = <<Connected("a"), Frame(sent.event)>>

\* The request bodies of the claims on decoding: no message.data, or a
\* payload that is not UTF-8 JSON.
IsMalformed(body) == ~HasData(body) \/ PayloadOf(body) # "json"

\* C24: an invocation whose body has no message.data, or whose payload does
\* not decode as JSON, takes one step: the decoder throws, and the step makes
\* no provider call, sends no event and leaves the identity store and every
\* response object as they are.
C24_MalformedIsDropped ==
    [][(wh'[1] # wh[1] /\ wh'[1].body \in UndecodableBodies)
          => /\ wh'[1].pc = "done"
             /\ wh'[1].outcome = "malformed"
             /\ wh'[1].thrown # ""
             /\ wh'[1].start = NULL
             /\ wh'[1].history = <<>>
             /\ wh'[1].attempts = <<>>
             /\ wh'[1].calls = <<>>
             /\ users' = users
             /\ connections' = connections
             /\ channel' = channel]_vars

C24_Witness ==
    /\ W.pc = "done"
    /\ W.body = Body("notJson", "a", 1)
    /\ W.thrown = "SyntaxError"
    /\ users["a"].lastHistoryId = 2
    /\ Len(mailbox["a"]) = 2
    /\ "c1" \in ConnectionsOf("a")

\* C26: the decoder throws for every body that has no message.data or whose
\* payload is not UTF-8 JSON, and what it throws for the one is of the kind
\* it throws for the other.
C26_OneErrorKind ==
    (W.pc # "idle" /\ IsMalformed(W.body))
        => /\ W.outcome = "malformed"
           /\ W.thrown = decodeNotification(NoDataBody).error

\* The operations that have read the document of identity e and have yet to
\* write its lastHistoryId.
CursorWriters(e) ==
    {<<"webhook", h>> : h \in {k \in HandlerIds :
                                 /\ wh[k].pc \in {"history", "fetch", "update"}
                                 /\ wh[k].emailAddress = e}}
    \cup {<<"watch", r>> : r \in {k \in WatchIds :
                                    /\ wr[k].pc \in {"register", "update"}
                                    /\ wr[k].sub = e}}

\* The message ids an invocation sent in 'email:new' events.
Delivered(w) ==
    UNION {Range(w.calls[i].payload.emails) : i \in CallsOf(w, "email:new")}

\* C27: when invocation 2 arrived while invocation 1, for the same identity,
\* was suspended on a provider call, and both have ended, the stored cursor is
\* the historyId of invocation 2.
C27_ArrivalOrder ==
    (/\ wh[1].pc = "done" /\ wh[2].pc = "done"
     /\ wh[1].emailAddress = wh[2].emailAddress
     /\ 1 \in wh[2].arrivedDuring
     /\ wr[1].pc = "idle")
        => StoredCursor(wh[2].emailAddress) = wh[2].historyId

\* C28: no two operations on one identity are at once between reading its
\* document and writing its lastHistoryId.
C28_SerializedCursorWrites ==
    \A e \in Emails : Cardinality(CursorWriters(e)) <= 1

\* C29: no step stores a lastHistoryId below the one it replaces.
C29_CursorMonotonic ==
    [][\A e \in Emails :
          users[e].lastHistoryId # NULL
             => users'[e].lastHistoryId >= users[e].lastHistoryId]_vars

\* C30: no message id is in the 'email:new' events of two invocations.
C30_DeliveredOnce ==
    Delivered(wh[1]) \cap Delivered(wh[2]) = {}

\* C38: every 'email:new' event of a pass carries the messages the pass
\* fetched, at least one and at most five, in delta order, with count their
\* number; a pass sends at most one, and none when nothing was fetched.
C38_EmailNewPayload ==
    /\ \A i \in CallsOf(W, "email:new") :
          LET payload == W.calls[i].payload
          IN  /\ payload.count = Len(payload.emails)
              /\ payload.count >= 1 /\ payload.count <= FetchCap
              /\ payload.emails = W.newEmails
              /\ Range(payload.emails) \subseteq Range(W.attempts) \ Range(W.failed)
              /\ \A m, n \in DOMAIN payload.emails :
                    m < n => Before(payload.emails[m], payload.emails[n])
    /\ Cardinality(CallsOf(W, "email:new")) <= 1
    /\ (PassDone /\ W.newEmails = <<>>) => CallsOf(W, "email:new") = {}

C38_Witness ==
    /\ PassDone
    /\ CallsOf(W, "email:new") # {}
    /\ Len(W.newMessageIds) > FetchCap
    /\ W.failed # <<>>
    /\ Len(W.newEmails) >= 2

\* C39: a pass whose history request failed with another error than the
\* stale-cursor signal has sent no event, fetched no message and left the
\* stored cursor as it was.
C39_ProviderErrorIsSilent ==
    (PassDone /\ W.outcome = "error")
        => /\ W.calls = <<>>
           /\ W.attempts = <<>>
           /\ W.newMessageIds = <<>>
           /\ StoredCursor(W.emailAddress) = W.cursorBefore

C39_Witness ==
    /\ PassDone
    /\ W.outcome = "error"
    /\ W.cursorBefore # NULL
    /\ W.historyId > W.cursorBefore
    /\ InboxIdsIn(HistoryAfter(W.emailAddress, W.start)) # {}
    /\ SendToUser(W.emailAddress) # {}

\* C31: one sendToUser call calls res.write exactly once on each response
\* object registered under the addressee when the call starts and on no
\* other; a response object that is not open (never registered, rejected or
\* already removed by its close handler) gets no call and is left as it was,
\* and the call itself neither adds to nor removes from the registry.
C31_SendSnapshot ==
    [][sent'.active =>
          LET registered == ConnectionsOf(sent'.to)
          IN  /\ DOMAIN sent'.writes = registered
              /\ \A c \in registered :
                    /\ sent'.writes[c] = 1
                    /\ channel[c].state = "open"
                    /\ channel'[c] = Written(channel[c], Frame(sent'.event))
              /\ \A c \in Channels :
                    channel[c].state # "open"
                       => /\ c \notin DOMAIN sent'.writes
                          /\ channel'[c] = channel[c]
              /\ connections' = connections]_vars

C31_Witness ==
    /\ sent.active /\ sent.to = "a"
    /\ DOMAIN sent.writes = {"c2"}
    /\ channel["c1"].state = "closed" /\ channel["c1"].email = "a"
    /\ channel["c1"].frames = <<Connected("a")>>
    /\ channel["c2"].state = "open" /\ channel["c2"].email = "a"
    /\ channel["c2"].frames = <<Connected("a"), Frame(sent.event)>>

\* C32: a response object whose close handler has run has no keep-alive
\* timer, is in no set of the registry, keeps the frames it had for as long
\* as it stays closed, and is not among the response objects a later
\* sendToUser or broadcast calls res.write on.
C32_NothingAfterClose ==
    [][\A c \in Channels :
          channel[c].state = "closed"
             => /\ ~channel[c].timer
                /\ \A e \in DOMAIN connections : c \notin connections[e]
                /\ c \notin DOMAIN sent'.writes
                /\ channel'[c].state = "closed"
                      => channel'[c].frames = channel[c].frames]_vars

C32_Witness ==
    /\ sent.to = "*"
    /\ DOMAIN sent.writes = {"c2"}
    /\ channel["c1"].state = "closed"
    /\ channel["c1"].frames = <<Connected("a"), Ping>>
    /\ channel["c2"].state = "open"
    /\ LastFrame("c2") = Frame(sent.event)

\* C36: every open response object is in the set of the identity its token
\* was verified for and in no other set, no response object is in the sets
\* of two identities, and every member of a set is an open response object
\* of that identity.
C36_OneSetPerChannel ==
    /\ \A c \in OpenChannels :
          /\ channel[c].cred.valid
          /\ channel[c].cred.sub \in DOMAIN connections
          /\ {e \in DOMAIN connections : c \in connections[e]}
                = {channel[c].cred.sub}
    /\ \A e1, e2 \in DOMAIN connections :
          e1 # e2 => connections[e1] \cap connections[e2] = {}
    /\ \A e \in DOMAIN connections : \A c \in connections[e] :
          channel[c].state = "open" /\ channel[c].cred.sub = e

C36_Witness ==
    /\ OpenChannels = Channels
    /\ \A c \in Channels : channel[c].cred = TokenFor("b")
    /\ connections = [x \in {"b"} |-> Channels]

\* The response objects that are members of some set of the registry.
Registered == UNION {connections[e] : e \in DOMAIN connections}

\* C35: a response object only moves forward: from new to open (token
\* verified and registered in one step) or to rejected, from open to closed,
\* and from closed or rejected nowhere; it is a member of the registry
\* exactly while it is open, and once closed it is never a member again.
C35_ForwardOnly ==
    [][\A c \in Channels :
          /\ <<channel[c].state, channel'[c].state>>
                \in {<<"new", "new">>, <<"new", "open">>, <<"new", "rejected">>,
                     <<"rejected", "rejected">>, <<"open", "open">>,
                     <<"open", "closed">>, <<"closed", "closed">>}
          /\ (c \in Registered) <=> (channel[c].state = "open")
          /\ (c \in Registered') <=> (channel'[c].state = "open")
          /\ channel[c].state = "closed" => c \notin Registered']_vars

C35_Witness ==
    /\ channel["c1"].state = "closed" /\ channel["c1"].closes = 2
    /\ channel["c1"].cred = TokenFor("a")
    /\ channel["c2"].state = "open" /\ channel["c2"].cred = TokenFor("a")
    /\ Registered = {"c2"}

\* The first watch request and the one repeated after it.
First == wr[1]
Repeated == wr[2]

\* C37: after a watch request registered with the provider and stored an
\* expiration, a repeated request of the same identity that checks while the
\* stored expiration is more than one hour ahead makes no remote call and
\* answers once, with skipped = true, the expiration the first request
\* stored and the history id stored at the time of its read.
C37_RepeatIsSkipped ==
    ( /\ First.pc = "done" /\ First.remoteCalls = 1
      /\ Repeated.pc = "done" /\ Repeated.sub = First.sub
      /\ First.result.expiration > Repeated.nowAtCheck + OneHour )
        => /\ Repeated.remoteCalls = 0
           /\ Repeated.responses =
                <<JsonOk(Repeated.user.lastHistoryId, First.result.expiration, TRUE)>>
           /\ users[First.sub].watchExpiration = First.result.expiration

C37_Witness ==
    /\ First.pc = "done" /\ First.remoteCalls = 1
    /\ Repeated.pc = "done" /\ Repeated.sub = First.sub
    /\ Repeated.nowAtCheck > First.nowAtCheck
    /\ Repeated.remoteCalls = 0
    /\ Len(Repeated.responses) = 1
    /\ Repeated.responses[1].skipped
    /\ Repeated.responses[1].expiration = First.result.expiration
    /\ Repeated.responses[1].historyId # First.result.historyId

\* The stored cursor of e is older than the history the provider still has.
Stale(e) ==
    /\ users[e].exists
    /\ users[e].lastHistoryId # NULL
    /\ HistoryIsStale(e, users[e].lastHistoryId)

\* This step is the update of a watch request of e that registered remotely.
WatchOverwrites(e) ==
    /\ R.pc = "update" /\ R.sub = e /\ R.remoteCalls = 1
    /\ wr'[1].pc = "done"

\* This step is the history request of a pass that read the stored cursor of
\* e, made while that cursor is stale.
StalePassAnswered(e) ==
    /\ W.pc = "history" /\ W.emailAddress = e
    /\ W.start = users[e].lastHistoryId
    /\ Stale(e)
    /\ wh'[1] # W

\* This step serves a watch request of e while the stored cursor is stale and
\* the stored watch expires more than one hour ahead.
SkippedWhileStale(e) ==
    /\ R.pc = "find" /\ R.sub = e
    /\ Stale(e)
    /\ users[e].watchExpiration # NULL
    /\ users[e].watchExpiration > now + OneHour
    /\ wr'[1] # R

PassCompletes(e) ==
    /\ W.pc = "update" /\ W.emailAddress = e /\ W.outcome = "ok"
    /\ wh'[1].pc = "done"
    /\ users'[e].lastHistoryId = W.historyId

CursorFields(user) == <<user.lastHistoryId, user.watchExpiration>>

\* C34: last_history_id and watch_expiration of an identity change only in
\* the update of a watch request of that identity after its remote
\* registration succeeded, which writes both from the provider's answer, and
\* in the final update of a reconciliation pass of that identity whose
\* history request returned a delta, which writes last_history_id alone;
\* every other step of every operation leaves both as they are.
C34_CursorWriters ==
    [][\A e \in Emails :
          CursorFields(users'[e]) # CursorFields(users[e])
             => \/ /\ R.pc = "update" /\ R.sub = e
                   /\ R.remoteCalls = 1 /\ ~RemoteFailed(R)
                   /\ CursorFields(users'[e]) =
                        <<R.result.historyId, R.result.expiration>>
                   /\ wr'[1].responses =
                        <<JsonOk(R.result.historyId, R.result.expiration, FALSE)>>
                \/ /\ W.pc = "update" /\ W.emailAddress = e
                   /\ W.outcome = "ok"
                   /\ CursorFields(users'[e]) =
                        <<W.historyId, users[e].watchExpiration>>]_vars

C34_Witness ==
    /\ users["a"] = WatchedUser
    /\ users["c"].exists
    /\ PassDone /\ W.emailAddress = "a" /\ W.outcome = "stale"
    /\ R.pc = "done" /\ R.sub = "a" /\ RemoteFailed(R)

\* C40: the lookup step of a well-formed notification whose identity has no
\* document ends the pass: the acknowledgment is the only response, no
\* history request and no message fetch is made, no event is sent, and the
\* identity store, the registry and every response object stay as they are,
\* also when a response object is registered under the same identity string.
C40_UnknownIdentityNoOp ==
    [][(W.pc = "find" /\ ~users[W.emailAddress].exists /\ wh'[1] # W)
          => /\ wh'[1].pc = "done"
             /\ wh'[1].responses = <<200>>
             /\ wh'[1].start = NULL
             /\ wh'[1].history = <<>>
             /\ wh'[1].attempts = <<>>
             /\ wh'[1].calls = <<>>
             /\ users' = users
             /\ connections' = connections
             /\ channel' = channel
             /\ sent' = sent]_vars

C40_Witness ==
    /\ PassDone /\ W.outcome = "unknown" /\ W.emailAddress = "c"
    /\ ~users["c"].exists
    /\ W.calls = <<>>
    /\ SendToUser("c") = {"c1"}
    /\ channel["c1"].state = "open"
    /\ channel["c1"].frames = <<Connected("c")>>

====
